---- MODULE Spec2Model ----
(***************************************************************************)
(* Model of multi_language_translator_auto.py: a Streamlit script that is  *)
(* re-run from top to bottom on every widget event.  One action of the     *)
(* model is one complete run of the script for one event.  The session     *)
(* state that survives a run is st.session_state.history and the selected  *)
(* pair; everything else is local to the run and is kept here as the       *)
(* observable outcome of the last run.                                      *)
(*                                                                         *)
(* Text is a sequence of one-character strings so that str.strip() can be  *)
(* computed.  Python's None is NoneVal for translated text and None_ for   *)
(* language codes.                                                         *)
(***************************************************************************)
EXTENDS Integers, Sequences, FiniteSets, TLC

VARIABLES
    history,          \* st.session_state.history
    pair_label,       \* value of the "Choose Translation Pair" selectbox
    now,              \* wall clock read by datetime.now() in add_turn
    event,            \* the widget event that triggered the last run
    before,           \* st.session_state.history as the last run found it
    recognized_text,  \* script local of the last run
    detected_raw,     \* script local of the last run
    detected_norm,    \* script local of the last run
    translateCalls,   \* translate_text calls of the last run: arguments and outcome
    ttsCalls,         \* arguments of the text_to_speech calls of the last run
    errors,           \* st.error messages of the last run, by kind
    exc,              \* pipeline step whose exception reached `except`, or "none"
    rendered          \* turns written by render_history in the last run, in order

vars == <<history, pair_label, now, event, before, recognized_text, detected_raw,
          detected_norm, translateCalls, ttsCalls, errors, exc, rendered>>

----------------------------------------------------------------------------
(* Bounds *)

\* number of start-recording runs explored (the clock stops there)
MaxClock == 2

----------------------------------------------------------------------------
(* Language configuration *)

LANGUAGE_PAIRS ==
    [l \in {"English <-> Arabic", "English <-> Sinhala",
            "English <-> Filipino (Tagalog)", "English <-> Hindi"} |->
        CASE l = "English <-> Arabic" -> <<"en", "ar">>
          [] l = "English <-> Sinhala" -> <<"en", "si">>
          [] l = "English <-> Filipino (Tagalog)" -> <<"en", "tl">>
          [] l = "English <-> Hindi" -> <<"en", "hi">>]

GTTS_MAP == [c \in {"en", "ar", "si", "tl", "hi"} |-> c]

WHISPER_LANG_NORMALIZE ==
    [r \in {"en", "ar", "si", "tl", "fil", "hi"} |->
        IF r = "fil" THEN "tl" ELSE r]

\* dict.get(key, default)
DictGet(d, k, default) == IF k \in DOMAIN d THEN d[k] ELSE default

----------------------------------------------------------------------------
(* Values *)

None_ == "None"
NoneVal == [isNone |-> TRUE, s |-> <<>>]
Str(s) == [isNone |-> FALSE, s |-> s]

\* variant: the test of src_lang and tgt_lang lets None through
Truthy_always(x) == TRUE

\* Python truthiness of a language code or None
Truthy(x) == x # None_ /\ x # ""

\* what whisper can put in result["language"] (absent key reads as "")
RawTags == {"en", "ar", "si", "tl", "fil", "hi", "fr", ""}

\* what whisper can put in result["text"]
RawTexts == {<<>>, <<" ">>, <<"h">>, <<" ", "h", " ">>}

\* what GoogleTranslator.translate can return when it does not raise:
\* None, the empty string, or a translation
TransValues == {NoneVal, Str(<<>>), Str(<<"H">>)}

\* how a translate_text call ended
Raised == [kind |-> "raise", val |-> NoneVal]
Returned(v) == [kind |-> "return", val |-> v]

----------------------------------------------------------------------------
(* Helper functions *)

RECURSIVE LStrip(_)
LStrip(s) == IF s # <<>> /\ Head(s) = " " THEN LStrip(Tail(s)) ELSE s

RECURSIVE RStrip(_)
RStrip(s) ==
    IF s # <<>> /\ s[Len(s)] = " " THEN RStrip(SubSeq(s, 1, Len(s) - 1)) ELSE s

\* str.strip()
Strip(s) == RStrip(LStrip(s))

\* variant: an unknown tag falls back to English instead of to itself
Normalize_default_en(lang_raw) == DictGet(WHISPER_LANG_NORMALIZE, lang_raw, "en")

\* WHISPER_LANG_NORMALIZE.get(lang_raw, lang_raw)
Normalize(lang_raw) == DictGet(WHISPER_LANG_NORMALIZE, lang_raw, lang_raw)

transcribe_and_detect(rawText, rawTag) ==
    [text |-> Strip(rawText), lang_raw |-> rawTag, lang_norm |-> Normalize(rawTag)]

\* variant: the elif branch does not swap the pair
Direction_noswap(norm, lang_a, lang_b) ==
    IF norm = lang_a THEN [src_lang |-> lang_a, tgt_lang |-> lang_b]
    ELSE IF norm = lang_b THEN [src_lang |-> lang_a, tgt_lang |-> lang_b]
    ELSE [src_lang |-> None_, tgt_lang |-> None_]

\* the if / elif / else on detected_norm
Direction(norm, lang_a, lang_b) ==
    IF norm = lang_a THEN [src_lang |-> lang_a, tgt_lang |-> lang_b]
    ELSE IF norm = lang_b THEN [src_lang |-> lang_b, tgt_lang |-> lang_a]
    ELSE [src_lang |-> None_, tgt_lang |-> None_]

\* variant: the turn is stored twice
add_turn_twice(hist, t, src_lang, tgt_lang, src_text, tgt_text, raw) ==
    LET turn == [time |-> t, src_lang |-> src_lang, tgt_lang |-> tgt_lang,
                 src_text |-> src_text, tgt_text |-> tgt_text,
                 detected_raw |-> raw]
    IN  hist \o <<turn, turn>>

add_turn(hist, t, src_lang, tgt_lang, src_text, tgt_text, raw) ==
    Append(hist, [time |-> t, src_lang |-> src_lang, tgt_lang |-> tgt_lang,
                  src_text |-> src_text, tgt_text |-> tgt_text,
                  detected_raw |-> raw])

\* history[::-1]
RECURSIVE ReverseSlice(_)
ReverseSlice(s) ==
    IF s = <<>> THEN <<>> ELSE <<s[Len(s)]>> \o ReverseSlice(SubSeq(s, 1, Len(s) - 1))

\* variant: history.reverse() in place instead of the slice
render_history_inplace(hist) ==
    [shown |-> ReverseSlice(hist), stored |-> ReverseSlice(hist)]

\* shown: the turns written to the page, in order; stored: the list afterwards
render_history(hist) ==
    [shown |-> IF hist = <<>> THEN <<>> ELSE ReverseSlice(hist), stored |-> hist]

----------------------------------------------------------------------------
(* One run of the `if start:` block.  Every call of the block may raise, and *)
(* an adapter answers when it is called, so each stage yields the set of     *)
(* ways the run can end from there.                                          *)

\* locals and outputs of a run before anything has happened
EmptyRun(hist) ==
    [history |-> hist, recognized_text |-> <<>>, detected_raw |-> "",
     detected_norm |-> "", translateCalls |-> <<>>, ttsCalls |-> <<>>,
     errors |-> <<>>, exc |-> "none"]

\* except Exception as e: st.error(f"Error: {e}")
Except(s, step) == [s EXCEPT !.exc = step, !.errors = Append(@, "Error")]

\* voice output: st.info, GTTS_MAP.get, text_to_speech, st.audio
VoiceOutput(s, tgt_lang, translated) ==
    LET tts_lang_code == DictGet(GTTS_MAP, tgt_lang, "en")
        called == [s EXCEPT !.ttsCalls =
                      Append(@, [text |-> translated, lang |-> tts_lang_code])]
    IN  {Except(s, "info_voice"), Except(called, "tts"),
         Except(called, "play_tts"), called}

\* variant: the turn is logged only once the voice output went through
LogAndSpeak_speakfirst(s, t, dir, translated) ==
    {Except(s, "show_translation")}
        \cup {IF v.exc = "none"
               THEN [v EXCEPT !.history =
                        add_turn(@, t, dir.src_lang, dir.tgt_lang, s.recognized_text,
                                 translated, s.detected_raw)]
               ELSE v : v \in VoiceOutput(s, dir.tgt_lang, translated)}

\* variant: the turn is logged before the translation is shown
LogAndSpeak_logfirst(s, t, dir, translated) ==
    LET logged ==
            [s EXCEPT !.history =
                add_turn(@, t, dir.src_lang, dir.tgt_lang, s.recognized_text,
                         translated, s.detected_raw)]
    IN  {Except(logged, "show_translation")}
            \cup VoiceOutput(logged, dir.tgt_lang, translated)

\* from the translation result on: show it, add_turn, voice output
LogAndSpeak(s, t, dir, translated) ==
    LET logged ==
            [s EXCEPT !.history =
                add_turn(@, t, dir.src_lang, dir.tgt_lang, s.recognized_text,
                         translated, s.detected_raw)]
    IN  {Except(s, "show_translation")}
            \cup VoiceOutput(logged, dir.tgt_lang, translated)

\* if src_lang and tgt_lang: st.info, translate_text, then the rest
Translate(s, t, dir) ==
    LET called(outcome) ==
            [s EXCEPT !.translateCalls =
                Append(@, [text |-> s.recognized_text, src |-> dir.src_lang,
                           tgt |-> dir.tgt_lang, outcome |-> outcome])]
    IN  {Except(s, "info_translating"), Except(called(Raised), "translate")}
            \cup UNION {LogAndSpeak(called(Returned(v)), t, dir, v) : v \in TransValues}

\* the else-branch of `if not recognized_text`
Route(s, lang_a, lang_b, t) ==
    LET dir == Direction(s.detected_norm, lang_a, lang_b)
        rejected == dir.src_lang = None_
        s2 == IF rejected THEN [s EXCEPT !.errors = Append(@, "NotInPair")] ELSE s
    IN  {Except(s, "show_recognized")}
            \cup (IF rejected THEN {Except(s, "err_notinpair")} ELSE {})
            \cup (IF Truthy(dir.src_lang) /\ Truthy(dir.tgt_lang)
                  THEN Translate(s2, t, dir)
                  ELSE {s2})

\* variant: no check for empty recognized text
Recognized_nocheck(s, lang_a, lang_b, t, r) ==
    Route([s EXCEPT !.recognized_text = r.text,
                    !.detected_raw = r.lang_raw,
                    !.detected_norm = r.lang_norm], lang_a, lang_b, t)

\* from the result of transcribe_and_detect on
Recognized(s, lang_a, lang_b, t, r) ==
    LET s1 == [s EXCEPT !.recognized_text = r.text,
                        !.detected_raw = r.lang_raw,
                        !.detected_norm = r.lang_norm]
    IN  IF r.text = <<>>
        THEN {Except(s1, "err_nospeech"), [s1 EXCEPT !.errors = Append(@, "NoSpeech")]}
        ELSE Route(s1, lang_a, lang_b, t)

\* the whole try block
Pipeline(hist, lang_a, lang_b, t) ==
    LET s0 == EmptyRun(hist)
    IN  {Except(s0, f) : f \in {"record", "play_rec", "info_transcribing", "recognize"}}
            \cup UNION {Recognized(s0, lang_a, lang_b, t, transcribe_and_detect(x, g)) :
                            x \in RawTexts, g \in RawTags}

----------------------------------------------------------------------------
(* State machine: one action per widget event, each a full run of the script *)

Init ==
    /\ history = <<>>
    /\ pair_label = "English <-> Arabic"
    /\ now = 0
    /\ event = "load"
    /\ before = <<>>
    /\ recognized_text = <<>>
    /\ detected_raw = ""
    /\ detected_norm = ""
    /\ translateCalls = <<>>
    /\ ttsCalls = <<>>
    /\ errors = <<>>
    /\ exc = "none"
    /\ rendered = <<>>

\* a run in which the `if start:` block is skipped, ending in render_history()
RunWithoutStart(hist) ==
    /\ history' = render_history(hist).stored
    /\ recognized_text' = <<>>
    /\ detected_raw' = ""
    /\ detected_norm' = ""
    /\ translateCalls' = <<>>
    /\ ttsCalls' = <<>>
    /\ errors' = <<>>
    /\ exc' = "none"
    /\ rendered' = render_history(hist).shown

\* the user picks another entry of the selectbox
SelectPair ==
    \E l \in DOMAIN LANGUAGE_PAIRS \ {pair_label} :
        /\ pair_label' = l
        /\ event' = "select"
        /\ before' = history
        /\ now' = now
        /\ RunWithoutStart(history)

\* variant: the button reports success without resetting the list
ClearHistory_keep ==
    /\ event' = "clear"
    /\ before' = history
    /\ UNCHANGED <<pair_label, now>>
    /\ RunWithoutStart(history)

\* the Clear History button
ClearHistory ==
    /\ event' = "clear"
    /\ before' = history
    /\ UNCHANGED <<pair_label, now>>
    /\ RunWithoutStart(<<>>)

\* the Start Recording button
StartRecording ==
    /\ now < MaxClock
    /\ \E s \in Pipeline(history, LANGUAGE_PAIRS[pair_label][1],
                            LANGUAGE_PAIRS[pair_label][2], now + 1) :
            /\ history' = render_history(s.history).stored
            /\ recognized_text' = s.recognized_text
            /\ detected_raw' = s.detected_raw
            /\ detected_norm' = s.detected_norm
            /\ translateCalls' = s.translateCalls
            /\ ttsCalls' = s.ttsCalls
            /\ errors' = s.errors
            /\ exc' = s.exc
            /\ rendered' = render_history(s.history).shown
    /\ now' = now + 1
    /\ event' = "start"
    /\ before' = history
    /\ UNCHANGED pair_label

Next == SelectPair \/ ClearHistory \/ StartRecording

Spec == Init /\ [][Next]_vars

----------------------------------------------------------------------------
(* Vocabulary of the properties *)

\* lang_a, lang_b = LANGUAGE_PAIRS[pair_label]
lang_a == LANGUAGE_PAIRS[pair_label][1]
lang_b == LANGUAGE_PAIRS[pair_label][2]

\* the normalization table as the specification words it
SpecNormalize(raw) == IF raw = "fil" THEN "tl" ELSE raw

OtherOf(c) == IF c = lang_a THEN lang_b ELSE lang_a

\* the last run was a start-recording attempt that recognized some speech
Heard == event = "start" /\ recognized_text # <<>>

\* the log after the run is the log before it plus exactly one turn at the end
OneAppended ==
    /\ Len(history) = Len(before) + 1
    /\ SubSeq(history, 1, Len(before)) = before

NewTurn == history[Len(history)]

\* a translate_text call that failed: it raised, or returned nothing usable
TranslationFailed(c) ==
    \/ c.outcome.kind = "raise"
    \/ c.outcome.val.isNone
    \/ c.outcome.val.s = <<>>

Reported == errors # <<>> /\ errors[Len(errors)] = "Error"

\* steps before add_turn, and steps after it, other than the two adapters
StepsBeforeAppend ==
    {"record", "play_rec", "info_transcribing", "recognize", "err_nospeech",
     "show_recognized", "err_notinpair", "info_translating", "show_translation"}
StepsAfterAppend == {"info_voice", "play_tts"}

----------------------------------------------------------------------------
(* Properties *)

\* C1: when the normalized detected tag is a member of the selected pair (a, b),
\* the direction is that member -> the other member; translate_text is called
\* once with exactly that (source, target), and a Turn logged by the run carries
\* them as src_lang and tgt_lang.
C1_Direction ==
    (/\ Heard
     /\ SpecNormalize(detected_raw) \in {lang_a, lang_b}
     /\ exc \notin {"show_recognized", "info_translating"})
    => LET src == SpecNormalize(detected_raw)
           tgt == OtherOf(src)
       IN  /\ Len(translateCalls) = 1
           /\ translateCalls[1].text = recognized_text
           /\ translateCalls[1].src = src
           /\ translateCalls[1].tgt = tgt
           /\ history # before =>
                /\ OneAppended
                /\ NewTurn.src_lang = src
                /\ NewTurn.tgt_lang = tgt

\* C1 witness: pair (en, tl), raw tag "fil", translated and logged as tl -> en
C1_Witness ==
    /\ Heard
    /\ lang_b = "tl"
    /\ detected_raw = "fil"
    /\ Len(translateCalls) = 1
    /\ translateCalls[1].src = "tl"
    /\ translateCalls[1].tgt = "en"
    /\ OneAppended
    /\ NewTurn.src_lang = "tl"
    /\ NewTurn.tgt_lang = "en"

\* C2: when speech was recognized and the normalized tag is neither member of
\* the selected pair, neither adapter is called, the log is the log before the
\* attempt, and (unless showing a message itself failed) the attempt is
\* reported as not in the pair.
C2_Rejected ==
    (Heard /\ SpecNormalize(detected_raw) \notin {lang_a, lang_b})
    => /\ translateCalls = <<>>
       /\ ttsCalls = <<>>
       /\ history = before
       /\ exc = "none" => errors = <<"NotInPair">>
       /\ exc \in {"none", "show_recognized", "err_notinpair"}

\* C2 witness: pair (en, ar), raw tag "fr", rejected with turns already logged
C2_Witness ==
    /\ Heard
    /\ lang_b = "ar"
    /\ detected_raw = "fr"
    /\ errors = <<"NotInPair">>
    /\ before # <<>>
    /\ history = before

\* C3: whenever the translation adapter fails in a turn (it raises, or returns
\* an empty or missing text), nothing is appended to the log, the
\* speech-synthesis adapter is not called and a failure is reported.
C3_TranslationFailureDiscards ==
    (event = "start" /\ translateCalls # <<>> /\ TranslationFailed(translateCalls[1]))
    => /\ history = before
       /\ ttsCalls = <<>>
       /\ Reported

\* C4: when text_to_speech fails, the failure is reported and the log is the
\* log before the attempt plus exactly the Turn of this attempt.
C4_SynthesisFailureKeepsTurn ==
    (event = "start" /\ exc = "tts")
    => /\ Reported
       /\ OneAppended
       /\ Len(translateCalls) = 1
       /\ translateCalls[1].outcome.kind = "return"
       /\ NewTurn = [time |-> now,
                     src_lang |-> translateCalls[1].src,
                     tgt_lang |-> translateCalls[1].tgt,
                     src_text |-> recognized_text,
                     tgt_text |-> translateCalls[1].outcome.val,
                     detected_raw |-> detected_raw]

\* C4 witness: synthesis failed on a real translation, after earlier turns
C4_Witness ==
    /\ event = "start"
    /\ exc = "tts"
    /\ before # <<>>
    /\ Len(history) = Len(before) + 1
    /\ NewTurn.tgt_text = Str(<<"H">>)

\* C5 as claimed: in an attempt whose adapters did not fail, a fault at any
\* other step is caught and reported, and the log is identical to the log
\* before the attempt.
C5_AnyFaultLeavesLog ==
    (/\ event = "start"
     /\ exc \in StepsBeforeAppend \cup StepsAfterAppend
     /\ translateCalls # <<>> => ~TranslationFailed(translateCalls[1]))
    => Reported /\ history = before

\* C5 amended: such a fault is caught and reported; raised before add_turn it
\* leaves the log identical, raised after add_turn (the voice-output message,
\* the playback of the synthesized audio) it leaves the log before the attempt
\* plus exactly the one Turn of the attempt.
C5_FaultLeavesLogOrOneTurn ==
    (event = "start" /\ exc \in StepsBeforeAppend \cup StepsAfterAppend)
    => /\ Reported
       /\ exc \in StepsBeforeAppend => history = before
       /\ exc \in StepsAfterAppend => OneAppended /\ NewTurn.time = now

\* C5 witness: playback of the synthesized audio failed after a real translation
C5_Witness ==
    /\ event = "start"
    /\ exc = "play_tts"
    /\ before # <<>>
    /\ OneAppended
    /\ NewTurn.tgt_text = Str(<<"H">>)

\* C6: an attempt never appends more than one Turn and never touches stored
\* Turns; a successful turn (translation returned and shown) appends exactly
\* one Turn at the end.
C6_AppendExactlyOne ==
    event = "start"
    => /\ history = before \/ OneAppended
       /\ (/\ translateCalls # <<>>
           /\ translateCalls[1].outcome.kind = "return"
           /\ exc # "show_translation")
          => /\ OneAppended
             /\ NewTurn.time = now
             /\ NewTurn.src_text = recognized_text
             /\ NewTurn.tgt_text = translateCalls[1].outcome.val

\* C6 witness: a fully successful turn appended after a stored turn
C6_Witness ==
    /\ event = "start"
    /\ exc = "none"
    /\ Len(before) = 1
    /\ Len(history) = 2
    /\ history[1] = before[1]
    /\ ttsCalls # <<>>

C8_ClearEmpties ==
    /\ event = "clear" => history = <<>> /\ rendered = <<>>
    /\ \A i \in 1..Len(history) :
          \/ i <= Len(before) /\ history[i] = before[i]
          \/ /\ event = "start"
             /\ history[i].time = now
             /\ \A j \in 1..Len(before) : before[j].time < now

\* C8 witness: a clear of a log of two turns
C8_Witness ==
    /\ event = "clear"
    /\ Len(before) = 2
    /\ history = <<>>
    /\ rendered = <<>>

\* C9: the normalized tag of a run is the table value of its raw tag ("fil"
\* gives "tl") and the raw tag itself for every other tag, the empty one
\* included.
C9_NormalizeTotal == detected_norm = SpecNormalize(detected_raw)

\* C9 witness: speech recognized with no language tag at all
C9_Witness ==
    /\ Heard
    /\ detected_raw = ""
    /\ detected_norm = ""
    /\ errors = <<"NotInPair">>

\* C10: every stored Turn has different source and target, which together are
\* a configured pair, a source equal to the normalized raw tag, and a
\* non-empty source text; a Turn logged by the last run is in the pair selected
\* for it, and selecting another pair leaves the log as it was.
C10_TurnInvariant ==
    /\ \A i \in 1..Len(history) :
          LET turn == history[i]
          IN  /\ turn.src_lang # turn.tgt_lang
              /\ \E l \in DOMAIN LANGUAGE_PAIRS :
                    {turn.src_lang, turn.tgt_lang} =
                        {LANGUAGE_PAIRS[l][1], LANGUAGE_PAIRS[l][2]}
              /\ turn.src_lang = SpecNormalize(turn.detected_raw)
              /\ turn.src_text # <<>>
    /\ (event = "start" /\ history # before)
          => {NewTurn.src_lang, NewTurn.tgt_lang} = {lang_a, lang_b}
    /\ event = "select" => history = before

\* C10 witness: turns of two different pairs, the pair changed after the last
C10_Witness ==
    /\ event = "select"
    /\ Len(history) = 2
    /\ {history[1].src_lang, history[1].tgt_lang} = {"en", "hi"}
    /\ {history[2].src_lang, history[2].tgt_lang} = {"en", "tl"}
    /\ history[2].detected_raw = "fil"
    /\ lang_b = "ar"

====
